---- MODULE Spec2Model ----
(***************************************************************************)
(* Model of manim/mobject/svg/tex_mobject.py: the string normalizer of     *)
(* SingleStringTexMobject, the substring tree assembler of TexMobject      *)
(* (break_up_by_substrings) and the query / coloring layer built on it.    *)
(* Strings are sequences of one-character strings; every str method the    *)
(* code uses (strip, count, startswith, endswith, replace, split, in,      *)
(* lower, comparison) is modelled by what it does on such sequences.       *)
(***************************************************************************)
EXTENDS Integers, Sequences, FiniteSets, TLC

VARIABLES tex_string, alignment, stage,
          tex_strings, num_submobs, flat, submobjects,
          assembled, call, ret, pc

vars == <<tex_string, alignment, stage, tex_strings, num_submobs, flat,
          submobjects, assembled, call, ret, pc>>

(* ------------------------------ bounds --------------------------------- *)
MaxFrags == 3
MaxSubstrings == 3
MaxFlat == 3
MaxCount == 2
MaxGroups == 3

(* --------------------------- Python str model --------------------------- *)
BS == "\\"

Min(a, b) == IF a < b THEN a ELSE b

RECURSIVE Repeat(_, _)
Repeat(s, n) == IF n <= 0 THEN <<>> ELSE s \o Repeat(s, n - 1)

RECURSIVE Concat(_)
Concat(ss) == IF ss = <<>> THEN <<>> ELSE Head(ss) \o Concat(Tail(ss))

count(s, ch) == Cardinality({i \in 1..Len(s) : s[i] = ch})

startswith(s, p) == Len(s) >= Len(p) /\ SubSeq(s, 1, Len(p)) = p

endswith(s, p) == Len(s) >= Len(p) /\ SubSeq(s, Len(s) - Len(p) + 1, Len(s)) = p

\* str.find: lowest 1-based position of p in s, 0 when absent
find(s, p) ==
    LET hits == {i \in 1..(Len(s) - Len(p) + 1) : SubSeq(s, i, i + Len(p) - 1) = p}
    IN  IF hits = {} THEN 0 ELSE CHOOSE i \in hits : \A j \in hits : i <= j

\* the `in` operator on strings
contains(p, s) == find(s, p) # 0

\* str.replace for a non-empty old: left to right, non-overlapping
RECURSIVE replace(_, _, _)
replace(s, old, new) ==
    LET i == find(s, old)
    IN  IF i = 0 THEN s
        ELSE SubSeq(s, 1, i - 1) \o new
             \o replace(SubSeq(s, i + Len(old), Len(s)), old, new)

\* str.split(sep) for a non-empty sep
RECURSIVE split(_, _)
split(s, sep) ==
    LET i == find(s, sep)
    IN  IF i = 0 THEN <<s>>
        ELSE <<SubSeq(s, 1, i - 1)>> \o split(SubSeq(s, i + Len(sep), Len(s)), sep)

RECURSIVE lstrip(_)
lstrip(s) == IF s # <<>> /\ Head(s) = " " THEN lstrip(Tail(s)) ELSE s

RECURSIVE rstrip(_)
rstrip(s) == IF s # <<>> /\ s[Len(s)] = " " THEN rstrip(SubSeq(s, 1, Len(s) - 1)) ELSE s

strip(s) == rstrip(lstrip(s))

(* ------------------------- markup literals ------------------------------ *)
LBrace == <<"{">>
RBrace == <<"}">>
Over == <<BS, "o", "v", "e", "r">>
Overline == Over \o <<"l", "i", "n", "e">>
Sqrt == <<BS, "s", "q", "r", "t">>
Substack == <<BS, "s", "u", "b", "s", "t", "a", "c", "k">>
Quad == <<BS, "q", "u", "a", "d">>
Filler == LBrace \o Quad \o RBrace
LineBreak == <<BS, BS>>
Left == <<BS, "l", "e", "f", "t">>
Right == <<BS, "r", "i", "g", "h", "t">>
Big == <<BS, "b", "i", "g">>
Dot == <<"d", "o", "t">>
Array == <<"a", "r", "r", "a", "y">>
Begin(context) == <<BS, "b", "e", "g", "i", "n", "{">> \o context \o RBrace
End(context) == <<BS, "e", "n", "d", "{">> \o context \o RBrace
Centering == <<BS, "c", "e", "n", "t", "e", "r", "i", "n", "g">>
DelimChars == {"(", ")", "{", "}", "[", "]", "|", ".", BS}

(* ------------------ SingleStringTexMobject: normalizer ------------------ *)
\* variant: only the missing left braces are added
remove_stray_braces_left_only(tex) ==
    Repeat(LBrace, count(tex, "}") - count(tex, "{")) \o tex

remove_stray_braces(tex) ==
    LET num_lefts == count(tex, "{")
        num_rights == count(tex, "}")
    IN  Repeat(LBrace, num_rights - num_lefts) \o tex
        \o Repeat(RBrace, num_lefts - num_rights)

should_add_filler(tex) ==
    \/ tex = Over
    \/ tex = Overline
    \/ tex = Sqrt
    \/ endswith(tex, <<"_">>)
    \/ endswith(tex, <<"^">>)
    \/ endswith(tex, Dot)

add_filler(tex) == IF should_add_filler(tex) THEN tex \o Filler ELSE tex

replace_substack(tex) == IF tex = Substack THEN Quad ELSE tex

\* variant: the empty string is passed on as it is
replace_empty_skipped(tex) == tex

replace_empty(tex) == IF tex = <<>> THEN Quad ELSE tex

\* variant: only the leading line break is escaped (replace with count 1)
escape_line_break_first_only(tex) ==
    IF startswith(tex, LineBreak) THEN Quad \o tex ELSE tex

escape_line_break(tex) ==
    IF startswith(tex, LineBreak) THEN replace(tex, LineBreak, Quad \o LineBreak)
    ELSE tex

num_delims(tex, substr) ==
    Len(SelectSeq(Tail(split(tex, substr)),
                  LAMBDA s : s # <<>> /\ s[1] \in DelimChars))

balance_left_right(tex) ==
    IF num_delims(tex, Left) # num_delims(tex, Right)
    THEN replace(replace(tex, Left, Big), Right, Big)
    ELSE tex

blank_unbalanced_context(tex) ==
    LET begin_in == contains(Begin(Array), tex)
        end_in == contains(End(Array), tex)
    IN  IF begin_in # end_in THEN <<>> ELSE tex

\* every intermediate value of modify_special_strings, in program order
stages(tex) ==
    LET braced == remove_stray_braces(tex)
        filled == replace_empty(replace_substack(add_filler(braced)))
        broken == escape_line_break(filled)
        delims == balance_left_right(broken)
    IN  [tex |-> tex, braced |-> braced, filled |-> filled, broken |-> broken,
         delims |-> delims, result |-> blank_unbalanced_context(delims)]

modify_special_strings(tex) == stages(tex).result

get_modified_expression(al, t) == modify_special_strings(strip(al \o <<" ">> \o t))

(* inputs of the normalizer: concatenations of markup fragments *)
Fragments ==
    {LBrace, RBrace, Over, Sqrt, Substack, <<"_">>, <<"^">>, <<" ">>, <<"x">>,
     <<BS, "c">> \o Dot, LineBreak, Left \o <<"(">>, Right \o <<")">>,
     Left \o <<"a">>, Begin(Array), End(Array), Overline}

RECURSIVE SeqsUpTo(_, _)
SeqsUpTo(S, n) ==
    IF n = 0 THEN {<<>>}
    ELSE LET shorter == SeqsUpTo(S, n - 1)
         IN  shorter \cup {Append(s, x) : s \in {t \in shorter : Len(t) = n - 1}, x \in S}

TexInputs == {Concat(fs) : fs \in SeqsUpTo(Fragments, MaxFrags)}

Alignments == {<<>>, Centering}

NoStage == [tex |-> <<>>, braced |-> <<>>, filled |-> <<>>, broken |-> <<>>,
            delims |-> <<>>, result |-> <<>>]

InitNormalize ==
    /\ tex_string \in TexInputs
    /\ alignment \in Alignments
    /\ stage = NoStage
    /\ pc = "created"
    /\ tex_strings = <<>> /\ num_submobs = <<>> /\ flat = <<>>
    /\ submobjects = <<>> /\ assembled = <<>> /\ call = <<>> /\ ret = <<>>

GetModifiedExpression ==
    /\ pc = "created"
    /\ stage' = stages(strip(alignment \o <<" ">> \o tex_string))
    /\ pc' = "normalized"
    /\ UNCHANGED <<tex_string, alignment, tex_strings, num_submobs, flat,
                   submobjects, assembled, call, ret>>

NextNormalize == GetModifiedExpression

SpecNormalize == InitNormalize /\ [][NextNormalize]_vars

(* ---------------- TexMobject: substring tree assembler ----------------- *)
\* tags of the segmented substrings (break_up_tex_strings keeps no empty one)
Tags == {<<"x">>, <<"x", "^", "2">>, <<"Y">>, <<"{", "}">>}

RECURSIVE Range(_, _)
Range(a, b) == IF a >= b THEN <<>> ELSE <<a>> \o Range(a + 1, b)

\* variant: the slice starts one element late
slice_from_next(list, a, b) == SubSeq(list, Min(a + 1, Len(list)) + 1, Min(b, Len(list)))

\* list[a:b] for 0 <= a <= b, clamped to the list as Python clamps it
slice(list, a, b) == SubSeq(list, Min(a, Len(list)) + 1, Min(b, Len(list)))

\* the VectorizedPoint created for the k-th substring: a fresh object that is
\* no element of the whole render
VectorizedPoint(k) == 0 - k

SingleStringTexMobject(k, tex, leaves, target) ==
    [id |-> k, tex_string |-> tex, submobjects |-> leaves, moved_to |-> target,
     color |-> "WHITE"]

\* the loop of break_up_by_substrings from the k-th tex_string on;
\* len(sub_tex_mob.submobjects) of the measuring render is counts[tex_string]
RECURSIVE break_up_loop(_, _, _, _, _, _)
break_up_loop(strs, subs, counts, k, curr_index, new_submobjects) ==
    IF k > Len(strs) THEN [raised |-> "none", submobjects |-> new_submobjects]
    ELSE LET tex == strs[k]
             num == counts[tex]
             new_index == curr_index + num
             last_submob_index == Min(curr_index, Len(subs) - 1)
         IN  IF num = 0
             THEN IF last_submob_index < 0 /\ last_submob_index + Len(subs) < 0
                  THEN [raised |-> "IndexError", submobjects |-> subs]
                  ELSE break_up_loop(strs, subs, counts, k + 1, new_index,
                         Append(new_submobjects,
                                SingleStringTexMobject(k, tex, <<VectorizedPoint(k)>>,
                                                       {subs[last_submob_index + 1]})))
             ELSE break_up_loop(strs, subs, counts, k + 1, new_index,
                    Append(new_submobjects,
                           SingleStringTexMobject(k, tex,
                                                  slice(subs, curr_index, new_index), {})))

break_up_by_substrings(strs, subs, counts) == break_up_loop(strs, subs, counts, 1, 0, <<>>)

\* the state before break_up_by_substrings runs: the whole render and the
\* measuring renders are answers of the renderer; without any tex_string the
\* whole expression is "" and its render \quad has no shape
InitAssemble ==
    /\ tex_strings \in SeqsUpTo(Tags, MaxSubstrings)
    /\ num_submobs \in [Tags -> 0..MaxCount]
    /\ flat \in {Range(0, n) : n \in 0..MaxFlat}
    /\ tex_strings = <<>> => flat = <<>>
    /\ submobjects = flat
    /\ pc = "built"
    /\ tex_string = <<>> /\ alignment = <<>> /\ stage = NoStage
    /\ assembled = <<>> /\ call = <<>> /\ ret = "none"

BreakUpBySubstrings ==
    /\ pc = "built"
    /\ LET r == break_up_by_substrings(tex_strings, submobjects, num_submobs)
       IN  /\ submobjects' = r.submobjects
           /\ ret' = r.raised
           /\ pc' = IF r.raised = "none" THEN "assembled" ELSE "failed"
    /\ UNCHANGED <<tex_string, alignment, stage, tex_strings, num_submobs, flat,
                   assembled, call>>

NextAssemble == BreakUpBySubstrings

SpecAssemble == InitAssemble /\ [][NextAssemble]_vars

(* ------------------- TexMobject: query / coloring layer ----------------- *)
lower_char(c) == CASE c = "X" -> "x" [] c = "Y" -> "y" [] OTHER -> c

lower(s) == [i \in 1..Len(s) |-> lower_char(s[i])]

ord(c) ==
    CASE c = "2" -> 50 [] c = "X" -> 88 [] c = "Y" -> 89 [] c = "^" -> 94
      [] c = "x" -> 120 [] c = "y" -> 121 [] c = "{" -> 123 [] c = "}" -> 125
      [] OTHER -> 0

\* a < b on str: lexicographic by code point, a proper prefix is smaller
RECURSIVE str_lt(_, _)
str_lt(a, b) ==
    IF b = <<>> THEN FALSE
    ELSE IF a = <<>> THEN TRUE
    ELSE IF ord(Head(a)) # ord(Head(b)) THEN ord(Head(a)) < ord(Head(b))
    ELSE str_lt(Tail(a), Tail(b))

Kwargs == [substring : BOOLEAN, case_sensitive : BOOLEAN]

\* variant: the containment test is made the wrong way round
test_swapped(tex1, tex2, kwargs) ==
    LET t1 == IF kwargs.case_sensitive THEN tex1 ELSE lower(tex1)
        t2 == IF kwargs.case_sensitive THEN tex2 ELSE lower(tex2)
    IN  IF kwargs.substring THEN contains(t2, t1) ELSE t1 = t2

test(tex1, tex2, kwargs) ==
    LET t1 == IF kwargs.case_sensitive THEN tex1 ELSE lower(tex1)
        t2 == IF kwargs.case_sensitive THEN tex2 ELSE lower(tex2)
    IN  IF kwargs.substring THEN contains(t1, t2) ELSE t1 = t2

get_parts_by_tex(subs, tex, kwargs) ==
    SelectSeq(subs, LAMBDA m : test(tex, m.tex_string, kwargs))

\* None is the empty option, a part is the option holding it
get_part_by_tex(subs, tex, kwargs) ==
    LET all_parts == get_parts_by_tex(subs, tex, kwargs)
    IN  IF all_parts # <<>> THEN <<all_parts[1]>> ELSE <<>>

set_color(part, color) == [part EXCEPT !.color = color]

set_color_by_tex(subs, tex, color, kwargs) ==
    [k \in 1..Len(subs) |->
        IF test(tex, subs[k].tex_string, kwargs) THEN set_color(subs[k], color)
        ELSE subs[k]]

\* one item of the map: a str key, or a tuple key whose members are coloured
\* one after the other
RECURSIVE set_color_by_texs(_, _, _, _)
set_color_by_texs(subs, texs, color, kwargs) ==
    IF texs = <<>> THEN subs
    ELSE set_color_by_texs(set_color_by_tex(subs, Head(texs), color, kwargs),
                           Tail(texs), color, kwargs)

RECURSIVE set_color_by_tex_to_color_map(_, _, _)
set_color_by_tex_to_color_map(subs, items, kwargs) ==
    IF items = <<>> THEN subs
    ELSE LET item == Head(items)
             coloured == IF item.is_str
                         THEN set_color_by_tex(subs, item.texs[1], item.color, kwargs)
                         ELSE set_color_by_texs(subs, item.texs, item.color, kwargs)
         IN  set_color_by_tex_to_color_map(coloured, Tail(items), kwargs)

\* Mobject.split() of the assembled tree: the top-level groups
mobject_split(subs) == subs

\* list.index / `in` on mobjects compare by identity
list_index(list, part) ==
    LET hits == {p \in 1..Len(list) : list[p].id = part.id}
    IN  IF hits = {} THEN 0 - 1 ELSE (CHOOSE p \in hits : \A q \in hits : p <= q) - 1

\* variant: a part that is not in the split is answered with a position
index_of_part_unchecked(subs, part) ==
    LET split_self == mobject_split(subs)
    IN  IF part = <<>> THEN [raised |-> "none", value |-> Len(split_self)]
        ELSE [raised |-> "none",
              value |-> IF list_index(split_self, part[1]) < 0 THEN 0
                        ELSE list_index(split_self, part[1])]

index_of_part(subs, part) ==
    LET split_self == mobject_split(subs)
    IN  IF part = <<>> \/ list_index(split_self, part[1]) < 0
        THEN [raised |-> "Exception", value |-> 0 - 1]
        ELSE [raised |-> "none", value |-> list_index(split_self, part[1])]

index_of_part_by_tex(subs, tex, kwargs) ==
    index_of_part(subs, get_part_by_tex(subs, tex, kwargs))

\* list.sort(key=...): stable, ascending; m goes behind every element whose
\* key is not greater than its own
RECURSIVE insert_sorted(_, _)
insert_sorted(sorted, m) ==
    IF sorted = <<>> THEN <<m>>
    ELSE IF str_lt(m.tex_string, Head(sorted).tex_string) THEN <<m>> \o sorted
    ELSE <<Head(sorted)>> \o insert_sorted(Tail(sorted), m)

RECURSIVE list_sort(_)
list_sort(list) ==
    IF list = <<>> THEN <<>>
    ELSE insert_sorted(list_sort(SubSeq(list, 1, Len(list) - 1)), list[Len(list)])

\* variant: parts with equal keys are merged into the first of them
RECURSIVE sort_dropping_equal_keys(_)
sort_dropping_equal_keys(list) ==
    IF list = <<>> THEN <<>>
    ELSE LET rest == sort_dropping_equal_keys(SubSeq(list, 1, Len(list) - 1))
             m == list[Len(list)]
         IN  IF \E p \in 1..Len(rest) : rest[p].tex_string = m.tex_string THEN rest
             ELSE insert_sorted(rest, m)

sort_alphabetically(subs) == list_sort(subs)

(* inputs of the query layer *)
QueryTags == {<<"x">>, <<"x", "^", "2">>, <<"Y">>}
QueryTexs == {<<"x">>, <<"y">>}
Colors == {"RED", "BLUE"}
ColorMaps ==
    {<<[is_str |-> TRUE, texs |-> <<<<"x">>>>, color |-> "RED"],
       [is_str |-> TRUE, texs |-> <<<<"y">>>>, color |-> "BLUE"]>>,
     <<[is_str |-> FALSE, texs |-> <<<<"x", "^", "2">>, <<"Y">>>>, color |-> "BLUE"]>>}

\* the measuring render used for the query layer: one leaf per glyph
glyphs(tex) == Len(SelectSeq(tex, LAMBDA c : c \notin {"{", "}", "^"}))

RECURSIVE glyphs_of_all(_)
glyphs_of_all(strs) == IF strs = <<>> THEN 0 ELSE glyphs(Head(strs)) + glyphs_of_all(Tail(strs))

\* a mobject that was never part of the tree
OtherMobject == SingleStringTexMobject(0, <<"x">>, <<>>, {})

NoCall == [op |-> "none", tex |-> <<>>, kwargs |-> [substring |-> TRUE, case_sensitive |-> TRUE],
           part |-> <<>>, color |-> "WHITE", items |-> <<>>]

Returned(v) == [raised |-> "none", value |-> v]

InitQuery ==
    /\ tex_strings \in SeqsUpTo(QueryTags, MaxGroups)
    /\ num_submobs = [t \in Tags |-> glyphs(t)]
    /\ flat = Range(0, glyphs_of_all(tex_strings))
    /\ submobjects = break_up_by_substrings(tex_strings, flat, num_submobs).submobjects
    /\ assembled = submobjects
    /\ pc = "assembled"
    /\ call = NoCall /\ ret = Returned(<<>>)
    /\ tex_string = <<>> /\ alignment = <<>> /\ stage = NoStage

Frame == UNCHANGED <<tex_string, alignment, stage, tex_strings, num_submobs, flat,
                     assembled, pc>>

GetPartsByTex ==
    \E tex \in QueryTexs, kwargs \in Kwargs :
        /\ pc = "assembled"
        /\ call' = [NoCall EXCEPT !.op = "get_parts_by_tex", !.tex = tex, !.kwargs = kwargs]
        /\ ret' = Returned(get_parts_by_tex(submobjects, tex, kwargs))
        /\ UNCHANGED submobjects /\ Frame

GetPartByTex ==
    \E tex \in QueryTexs, kwargs \in Kwargs :
        /\ pc = "assembled"
        /\ call' = [NoCall EXCEPT !.op = "get_part_by_tex", !.tex = tex, !.kwargs = kwargs]
        /\ ret' = Returned(get_part_by_tex(submobjects, tex, kwargs))
        /\ UNCHANGED submobjects /\ Frame

SetColorByTex ==
    \E tex \in QueryTexs, color \in Colors, kwargs \in Kwargs :
        /\ pc = "assembled"
        /\ call' = [NoCall EXCEPT !.op = "set_color_by_tex", !.tex = tex,
                                  !.kwargs = kwargs, !.color = color]
        /\ submobjects' = set_color_by_tex(submobjects, tex, color, kwargs)
        /\ ret' = Returned(<<>>)
        /\ Frame

SetColorByTexToColorMap ==
    \E items \in ColorMaps, kwargs \in Kwargs :
        /\ pc = "assembled"
        /\ call' = [NoCall EXCEPT !.op = "set_color_by_tex_to_color_map",
                                  !.items = items, !.kwargs = kwargs]
        /\ submobjects' = set_color_by_tex_to_color_map(submobjects, items, kwargs)
        /\ ret' = Returned(<<>>)
        /\ Frame

IndexOfPart ==
    \E part \in {<<submobjects[k]>> : k \in 1..Len(submobjects)} \cup {<<OtherMobject>>} :
        /\ pc = "assembled"
        /\ call' = [NoCall EXCEPT !.op = "index_of_part", !.part = part]
        /\ ret' = index_of_part(submobjects, part)
        /\ UNCHANGED submobjects /\ Frame

IndexOfPartByTex ==
    \E tex \in QueryTexs, kwargs \in Kwargs :
        /\ pc = "assembled"
        /\ call' = [NoCall EXCEPT !.op = "index_of_part_by_tex", !.tex = tex, !.kwargs = kwargs]
        /\ ret' = index_of_part_by_tex(submobjects, tex, kwargs)
        /\ UNCHANGED submobjects /\ Frame

SortAlphabetically ==
    /\ pc = "assembled"
    /\ call' = [NoCall EXCEPT !.op = "sort_alphabetically"]
    /\ submobjects' = sort_alphabetically(submobjects)
    /\ ret' = Returned(<<>>)
    /\ Frame

NextQuery ==
    \/ GetPartsByTex
    \/ GetPartByTex
    \/ SetColorByTex
    \/ SetColorByTexToColorMap
    \/ IndexOfPart
    \/ IndexOfPartByTex
    \/ SortAlphabetically

SpecQuery == InitQuery /\ [][NextQuery]_vars

(* ----------------------- normalizer properties -------------------------- *)
Normalized == pc = "normalized"

HasMarker(s, m) == \E i \in 1..Len(s) : i + Len(m) - 1 <= Len(s) /\ SubSeq(s, i, i + Len(m) - 1) = m

OneSidedArray(s) == HasMarker(s, Begin(Array)) # HasMarker(s, End(Array))

\* C5 (as stated): for every input and alignment prefix the normalized
\* string is non-empty, also when only one of \begin{array} / \end{array}
\* is present.
C5_NonEmptyAlways == Normalized => stage.result # <<>>

\* C5 (amended): the normalized string is non-empty unless the brace-repaired
\* string contains exactly one of \begin{array} and \end{array}; in that case
\* it is the empty string.
C5_NonEmptyUnlessOneSidedArray ==
    Normalized => ((stage.result = <<>>) <=> OneSidedArray(stage.braced))

C5_Witness ==
    /\ Normalized /\ tex_string = <<>> /\ alignment = <<>>
    /\ stage.result = Quad

\* C6: the normalized string contains equally many { and } characters.
C6_BraceBalance == Normalized => count(stage.result, "{") = count(stage.result, "}")

C6_Witness ==
    /\ Normalized
    /\ count(stage.tex, "{") > count(stage.tex, "}")
    /\ endswith(stage.tex, <<"^">>)
    /\ stage.result # <<>>

RECURSIVE Join(_, _)
Join(sep, pieces) ==
    IF Len(pieces) = 1 THEN pieces[1]
    ELSE pieces[1] \o sep \o Join(sep, Tail(pieces))

\* C9 (as stated): when the string starts with a line break, one filler is
\* inserted right after that leading line break and the rest of the string
\* is left as it was; otherwise the step changes nothing.
C9_FillerAfterLeadingBreakOnly ==
    Normalized =>
        IF startswith(stage.filled, LineBreak)
        THEN \E f \in {Filler, Quad} :
                stage.broken = LineBreak \o f
                    \o SubSeq(stage.filled, Len(LineBreak) + 1, Len(stage.filled))
        ELSE stage.broken = stage.filled

\* C9 (amended): when the string starts with a line break, \quad is inserted
\* immediately before the leading line break and before every later line
\* break (left to right, non-overlapping); otherwise the step changes nothing.
C9_QuadBeforeEveryBreak ==
    Normalized =>
        IF startswith(stage.filled, LineBreak)
        THEN /\ stage.broken = Join(Quad \o LineBreak, split(stage.filled, LineBreak))
             /\ startswith(stage.broken, Quad \o LineBreak)
        ELSE stage.broken = stage.filled

C9_Witness ==
    /\ Normalized
    /\ startswith(stage.filled, LineBreak)
    /\ Len(split(stage.filled, LineBreak)) >= 3
    /\ stage.filled[Len(stage.filled)] = "x"

(* ------------------------ assembler properties -------------------------- *)
Assembled == pc = "assembled"

RECURSIVE CountBefore(_)
CountBefore(k) == IF k <= 1 THEN 0 ELSE CountBefore(k - 1) + num_submobs[tex_strings[k - 1]]

TotalCount == CountBefore(Len(tex_strings) + 1)

FlatLeaves == {flat[j] : j \in 1..Len(flat)}

LeavesOf(g) == {g.submobjects[m] : m \in 1..Len(g.submobjects)}

IsPlaceholderGroup(k) == num_submobs[tex_strings[k]] = 0

\* C1: when the per-substring counts do not add up to len(flat), assembly
\* ends in an error and never returns a tree.
C1_MismatchNeverReturnsTree ==
    (pc # "built" /\ TotalCount # Len(flat)) => pc = "failed"

RECURSIVE SumLen(_, _)
SumLen(groups, k) ==
    IF k > Len(groups) THEN 0
    ELSE (IF IsPlaceholderGroup(k) THEN 0 ELSE Len(groups[k].submobjects))
         + SumLen(groups, k + 1)

\* C2: in every returned tree each flat leaf is owned by exactly one group,
\* the leaf counts of the non-placeholder groups add up to len(flat), and a
\* group of a zero-count substring holds exactly one leaf that is not in flat.
C2_GroupsPartitionFlat ==
    Assembled =>
        /\ \A leaf \in FlatLeaves :
              Cardinality({k \in 1..Len(submobjects) : leaf \in LeavesOf(submobjects[k])}) = 1
        /\ SumLen(submobjects, 1) = Len(flat)
        /\ \A k \in 1..Len(submobjects) :
              IsPlaceholderGroup(k) =>
                  /\ Len(submobjects[k].submobjects) = 1
                  /\ submobjects[k].submobjects[1] \notin FlatLeaves

\* C3: the tree has one group per substring, in the given order and tagged
\* with its substring, and a group of a substring with count > 0 owns the
\* slice flat[i : i + count] where i is the sum of the counts before it.
C3_OrderAndSlices ==
    Assembled =>
        /\ Len(submobjects) = Len(tex_strings)
        /\ \A k \in 1..Len(submobjects) :
              LET g == submobjects[k]
                  c == num_submobs[tex_strings[k]]
                  i == CountBefore(k)
                  lo == Min(i, Len(flat))
                  hi == Min(i + c, Len(flat))
              IN  /\ g.tex_string = tex_strings[k]
                  /\ c > 0 =>
                        /\ Len(g.submobjects) = hi - lo
                        /\ \A m \in 1..(hi - lo) : g.submobjects[m] = flat[i + m]

C3_Witness ==
    /\ Assembled /\ Len(tex_strings) = 3 /\ TotalCount = Len(flat)
    /\ num_submobs[tex_strings[1]] = 1
    /\ num_submobs[tex_strings[2]] = 0
    /\ num_submobs[tex_strings[3]] = 2
    /\ submobjects[3].submobjects = <<flat[2], flat[3]>>

\* C4: when the renders agree, the placeholder of a zero-count substring is positioned at the first
\* flat leaf when the substring is the first one; when a group before it owns
\* flat leaves, it is positioned at a leaf of the group preceding it and
\* never at a leaf that belongs to a later group.
C4_PlaceholderAtPrecedingGroup ==
    (Assembled /\ TotalCount = Len(flat)) =>
        \A k \in 1..Len(submobjects) :
            IsPlaceholderGroup(k) =>
                /\ k = 1 => submobjects[k].moved_to = {flat[1]}
                /\ (k > 1 /\ CountBefore(k) > 0) =>
                      \A j \in (k + 1)..Len(submobjects) :
                          submobjects[k].moved_to \cap LeavesOf(submobjects[j]) = {}

(* ------------------------ query layer properties ------------------------ *)
\* the match predicate of find, stated on positions
Matches(tag, tex, kwargs) ==
    LET a == IF kwargs.case_sensitive THEN tex ELSE lower(tex)
        b == IF kwargs.case_sensitive THEN tag ELSE lower(tag)
    IN  IF kwargs.substring THEN HasMarker(b, a) ELSE a = b

PositionsOf(subs, g) == {p \in 1..Len(subs) : subs[p].id = g.id}

NoMatch(subs, tex, kwargs) ==
    \A p \in 1..Len(subs) : ~Matches(subs[p].tex_string, tex, kwargs)

\* C7: get_parts_by_tex returns exactly the top-level groups whose tag
\* matches, in tree order, each once.
C7_FindReturnsExactlyMatches ==
    call.op = "get_parts_by_tex" =>
        LET found == ret.value
        IN  /\ ret.raised = "none"
            /\ \A p \in 1..Len(submobjects) :
                  Matches(submobjects[p].tex_string, call.tex, call.kwargs)
                      <=> \E a \in 1..Len(found) : found[a] = submobjects[p]
            /\ \A a \in 1..Len(found) : PositionsOf(submobjects, found[a]) # {}
            /\ \A a, b \in 1..Len(found) :
                  a < b => \E p \in PositionsOf(submobjects, found[a]),
                              q \in PositionsOf(submobjects, found[b]) : p < q

C7_Witness ==
    /\ call.op = "get_parts_by_tex" /\ call.tex = <<"x">>
    /\ call.kwargs = [substring |-> TRUE, case_sensitive |-> TRUE]
    /\ tex_strings = << <<"x">>, <<"x", "^", "2">>, <<"Y">> >>
    /\ Len(ret.value) = 2
    /\ ret.value[2].tex_string = <<"x", "^", "2">>

\* C8: a lookup leaves the tree as it is; without a match find returns an
\* empty result and find_one none; index_of_part fails for a part that is not
\* in the split and index_of_part_by_tex for a tex without match; for a part
\* in the split index_of_part returns the position that holds this part.
C8_LookupStep ==
    LET op == call'.op
        lookup == op \in {"get_parts_by_tex", "get_part_by_tex", "index_of_part",
                          "index_of_part_by_tex"}
        missing == NoMatch(submobjects, call'.tex, call'.kwargs)
    IN  /\ lookup => submobjects' = submobjects
        /\ (op \in {"get_parts_by_tex", "get_part_by_tex"} /\ missing) =>
              ret' = Returned(<<>>)
        /\ (op = "index_of_part_by_tex" /\ missing) => ret'.raised = "Exception"
        /\ op = "index_of_part" =>
              IF PositionsOf(submobjects, call'.part[1]) = {}
              THEN ret'.raised = "Exception"
              ELSE /\ ret'.raised = "none"
                   /\ ret'.value \in 0..(Len(submobjects) - 1)
                   /\ submobjects[ret'.value + 1] = call'.part[1]

C8_LookupMisses == [][C8_LookupStep]_vars

C8_Witness ==
    /\ call.op = "index_of_part_by_tex" /\ call.tex = <<"y">>
    /\ call.kwargs.case_sensitive
    /\ \E p \in 1..Len(submobjects) : submobjects[p].tex_string = <<"Y">>
    /\ submobjects # assembled
    /\ ret.raised = "Exception"

Core(g) == [id |-> g.id, tex_string |-> g.tex_string, submobjects |-> g.submobjects]

Elements(list) == {list[k] : k \in 1..Len(list)}

\* C10: whatever is called, the groups, their tags and their leaf sequences
\* stay those of the assembled tree; find and find_one change nothing,
\* recoloring changes only colors of matching groups, and sorting only
\* permutes the top-level groups.
C10_FrameStep ==
    LET op == call'.op
        same_place == /\ Len(submobjects') = Len(submobjects)
                      /\ \A k \in 1..Len(submobjects) :
                            Core(submobjects'[k]) = Core(submobjects[k])
        recolored(k) == submobjects'[k].color # submobjects[k].color
    IN  /\ Len(submobjects') = Len(assembled)
        /\ {Core(g) : g \in Elements(submobjects')} = {Core(g) : g \in Elements(assembled)}
        /\ op \in {"get_parts_by_tex", "get_part_by_tex"} => submobjects' = submobjects
        /\ op = "set_color_by_tex" =>
              /\ same_place
              /\ \A k \in 1..Len(submobjects) :
                    recolored(k) =>
                        Matches(submobjects[k].tex_string, call'.tex, call'.kwargs)
        /\ op = "set_color_by_tex_to_color_map" =>
              /\ same_place
              /\ \A k \in 1..Len(submobjects) :
                    recolored(k) =>
                        \E i \in 1..Len(call'.items) :
                            \E t \in Elements(call'.items[i].texs) :
                                Matches(submobjects[k].tex_string, t, call'.kwargs)
        /\ op = "sort_alphabetically" =>
              /\ Len(submobjects') = Len(submobjects)
              /\ Elements(submobjects') = Elements(submobjects)

C10_TreeFrame == [][C10_FrameStep]_vars

C10_Witness ==
    /\ call.op = "sort_alphabetically"
    /\ Len(submobjects) = 3
    /\ submobjects[1].id = 3
    /\ submobjects[1].color = "BLUE"
    /\ submobjects[2].color = "RED" /\ submobjects[3].color = "WHITE"
    /\ submobjects # assembled

====
